---- MODULE Spec2Model ----
(***************************************************************************)
(* The guided setup script src/lib/db/setup.ts as a state machine.         *)
(*                                                                         *)
(* main() is one sequential async function.  Every `await` in it (an      *)
(* external command, an operator prompt, the file write) is a suspension   *)
(* point; pc names the await the script is suspended on, and each action   *)
(* is the code that runs from the resumption of one await up to the next   *)
(* await (or up to the end of the process).  The environment chooses the   *)
(* outcome of the await: the exit status and standard output of a command, *)
(* the line the operator types, whether the file write succeeds.           *)
(*                                                                         *)
(* Text that the script computes with (answers, the listen output, the     *)
(* file content) is a sequence of one-character strings.  Text it only     *)
(* prints or passes on (messages, commands, prompts) is a TLA+ string.     *)
(*                                                                         *)
(* The second half of the module is the middleware of                      *)
(* src/utils/supabase/middleware.ts with getSupabaseKeys of                *)
(* src/unnamed/part_000: one call of updateSession or createClient, the    *)
(* SDK calling back setAll while the user lookup is pending, and the       *)
(* browser following a redirect.  The two programs share nothing: each     *)
(* specification holds the other program's variables still.                *)
(***************************************************************************)
EXTENDS Integers, Sequences, FiniteSets, TLC

VARIABLES
    pc,                             \* the await main() is suspended on
    exitCode,                       \* the status the process ends with
    trace,                          \* the commands, prompts and file writes, in order
    console,                        \* the lines printed, in order
    envFile,                        \* the file .env of the working directory
    envFile0,                       \* .env as it was when the script started
    authAnswer,                     \* `answer`, setup.ts:41
    STRIPE_SECRET_KEY,              \* setup.ts:163
    STRIPE_WEBHOOK_SECRET,          \* setup.ts:164
    hasProject,                     \* setup.ts:113
    answer,                         \* setup.ts:117
    answerAgain,                    \* the inner `answer`, setup.ts:120
    NEXT_PUBLIC_SUPABASE_URL,       \* setup.ts:166
    NEXT_PUBLIC_SUPABASE_ANON_KEY,  \* setup.ts:167
    SUPABASE_SERVICE_ROLE_KEY,      \* setup.ts:168
    processEnv,                     \* process.env of the web application
    mwpc,                           \* where the middleware call is
    request,                        \* the NextRequest being handled
    followed,                       \* the request came from following a redirect
    supabaseResponse,               \* middleware.ts:5
    clients,                        \* the Supabase clients the call constructed
    lookups,                        \* the calls of supabase.auth.getUser()
    passed,                         \* the arguments of the setAll calls, in order
    user,                           \* middleware.ts:33
    result                          \* what the call returned or threw

locals ==
    <<authAnswer, STRIPE_SECRET_KEY, STRIPE_WEBHOOK_SECRET, hasProject, answer,
      answerAgain, NEXT_PUBLIC_SUPABASE_URL, NEXT_PUBLIC_SUPABASE_ANON_KEY,
      SUPABASE_SERVICE_ROLE_KEY>>

setup ==
    <<pc, exitCode, trace, console, envFile, envFile0, locals>>

web ==
    <<processEnv, mwpc, request, followed, supabaseResponse, clients, lookups,
      passed, user, result>>

vars ==
    <<setup, web>>

(***************************************************************************)
(* Bounds of the model.                                                    *)
(***************************************************************************)

\* The listen outputs the extractor is tried on are made of at most this many
\* pieces (see OutputPieces).
MaxPieces == 3

\* The free-text answers (the secret key and the three backend keys) are the
\* empty line and the lines k=, k=v, k=vv, ... with at most this many v.
MaxTail == 0

(***************************************************************************)
(* Characters and strings.                                                 *)
(***************************************************************************)

UpperCase ==
    <<"A", "B", "C", "D", "E", "F", "G", "H", "I", "J", "K", "L", "M", "N", "O", "P", "Q", "R", "S", "T", "U", "V", "W", "X", "Y", "Z">>

LowerCase ==
    <<"a", "b", "c", "d", "e", "f", "g", "h", "i", "j", "k", "l", "m", "n", "o", "p", "q", "r", "s", "t", "u", "v", "w", "x", "y", "z">>

Digits ==
    <<"0", "1", "2", "3", "4", "5", "6", "7", "8", "9">>

Range(s) ==
    {s[i] : i \in 1..Len(s)}

\* The character class [a-zA-Z0-9] of the pattern at setup.ts:91.
Alnum ==
    Range(LowerCase) \cup Range(UpperCase) \cup Range(Digits)

\* String.prototype.toLowerCase on one character: A-Z map to a-z, every other
\* character of the model's alphabet is left as it is.
LowerChar(c) ==
    IF c \in Range(UpperCase)
    THEN LowerCase[CHOOSE i \in 1..Len(UpperCase) : UpperCase[i] = c]
    ELSE c

toLowerCase(s) ==
    [i \in 1..Len(s) |-> LowerChar(s[i])]

\* Array.prototype.join(sep) on an array of strings.
RECURSIVE Join(_, _)
Join(lines, sep) ==
    IF lines = <<>> THEN <<>>
    ELSE IF Len(lines) = 1 THEN lines[1]
    ELSE lines[1] \o sep \o Join(Tail(lines), sep)

\* The character c, n times.
RECURSIVE Repeat(_, _)
Repeat(c, n) ==
    IF n = 0 THEN <<>> ELSE <<c>> \o Repeat(c, n - 1)

(***************************************************************************)
(* What the environment can answer.                                        *)
(***************************************************************************)

\* Lines the operator may type at a (y/n) prompt.
YesNoAnswers ==
    { <<"y">>, <<"Y">>, <<"n">>, <<"N">>, <<"y", "e", "s">>,
      <<"m", "a", "y", "b", "e">>, <<>> }

\* Lines the operator may type at a "continue" prompt.
ContinueAnswers ==
    { <<"c", "o", "n", "t", "i", "n", "u", "e">>,
      <<"C", "O", "N", "T", "I", "N", "U", "E">>,
      <<"C", "o", "n", "t", "i", "n", "u", "e">>,
      <<"n", "o">>, <<>> }

\* Lines the operator may type at a free-text prompt.  readline hands over one
\* line, so an answer holds no newline.
FreeAnswers ==
    { <<>> } \cup { <<"k", "=">> \o Repeat("v", n) : n \in 0..MaxTail }

\* Standard output of a successful `stripe listen --print-secret`.
ListenOutputs ==
    { <<"w", "h", "s", "e", "c", "_", "A", "b", "C", "1", "2", "3">>,
      <<">", " ", "w", "h", "s", "e", "c", "_", "A", "b", "C", "1", "2", "3", " ", "(", "^", "C", ")", "\n">>,
      <<"w", "h", "s", "e", "c", "_", "-", "w", "h", "s", "e", "c", "_", "x", "9", "z", "!">>,
      <<"w", "h", "s", "e", "c", "_", "a", "1", " ", "w", "h", "s", "e", "c", "_", "b", "2">>,
      <<"w", "h", "s", "e", "c", "_">>,
      <<"n", "o", " ", "s", "e", "c", "r", "e", "t">>,
      <<>> }

\* What .env may be when the script starts: absent, or a file left by an
\* earlier run or written by hand.
InitialEnvFiles ==
    { [exists |-> FALSE, content |-> <<>>],
      [exists |-> TRUE, content |-> <<"O", "L", "D", "=", "1", "\n">>] }

(***************************************************************************)
(* Events: one per observable thing the script does.  The lines it prints  *)
(* are collected in console, its dealings with the outside in trace.       *)
(***************************************************************************)

Event(op, arg, ok, data) ==
    [op |-> op, arg |-> arg, ok |-> ok, data |-> data]

\* console.log(text): a line on standard output.
Log(text) ==
    Event("log", text, TRUE, <<>>)

\* console.error(text): a line on the diagnostic stream.
Error(text) ==
    Event("error", text, TRUE, <<>>)

\* execAsync(command) is called, and later settles.
Exec(command) ==
    Event("exec", command, TRUE, <<>>)

ExecResult(command, ok, stdout) ==
    Event("execResult", command, ok, stdout)

\* question(query) is called, and later resolves with the operator's line.
Question(query) ==
    Event("question", query, TRUE, <<>>)

Answer(query, line) ==
    Event("answer", query, TRUE, line)

\* fs.writeFile(path, content) is called, and later settles.
WriteFile(path, content) ==
    Event("writeFile", path, TRUE, content)

WriteResult(path, ok) ==
    Event("writeResult", path, ok, <<>>)

(***************************************************************************)
(* The fixed texts of the script.                                          *)
(***************************************************************************)

CmdVersion == "stripe --version"
CmdConfigList == "stripe config --list"
CmdListen == "stripe listen --print-secret"

QAuthenticated == "Have you completed the authentication? (y/n): "
QStripeSecretKey == "Enter your Stripe Secret Key: "
QHasProject == "Do you already have a Supabase project? (y/n): "
QContinue == "Type \"continue\" when you have created your project: "
QContinueAgain == "Please type \"continue\" when you have created your project: "
QApiUrl == "Enter your Supabase API Url: "
QAnonKey == "Enter your Supabase Anon Key: "
QServiceRoleKey == "Enter your Supabase Service Role Key: "

EnvPath == ".env"

\* The property names of the object literal at setup.ts:172-179.
Key_STRIPE_SECRET_KEY ==
    <<"S", "T", "R", "I", "P", "E", "_", "S", "E", "C", "R", "E", "T", "_", "K", "E", "Y">>
Key_STRIPE_WEBHOOK_SECRET ==
    <<"S", "T", "R", "I", "P", "E", "_", "W", "E", "B", "H", "O", "O", "K", "_", "S", "E", "C", "R", "E", "T">>
Key_NEXT_PUBLIC_SUPABASE_URL ==
    <<"N", "E", "X", "T", "_", "P", "U", "B", "L", "I", "C", "_", "S", "U", "P", "A", "B", "A", "S", "E", "_", "U", "R", "L">>
Key_NEXT_PUBLIC_SUPABASE_ANON_KEY ==
    <<"N", "E", "X", "T", "_", "P", "U", "B", "L", "I", "C", "_", "S", "U", "P", "A", "B", "A", "S", "E", "_", "A", "N", "O", "N", "_", "K", "E", "Y">>
Key_SUPABASE_SERVICE_ROLE_KEY ==
    <<"S", "U", "P", "A", "B", "A", "S", "E", "_", "S", "E", "R", "V", "I", "C", "E", "_", "R", "O", "L", "E", "_", "K", "E", "Y">>
Key_BASE_URL ==
    <<"B", "A", "S", "E", "_", "U", "R", "L">>

\* const BASE_URL = 'http://localhost:3000', setup.ts:170.
BASE_URL ==
    <<"h", "t", "t", "p", ":", "/", "/", "l", "o", "c", "a", "l", "h", "o", "s", "t", ":", "3", "0", "0", "0">>

(***************************************************************************)
(* Pure parts of the script.                                               *)
(***************************************************************************)

Whsec ==
    <<"w", "h", "s", "e", "c", "_">>

\* The pattern /whsec_[a-zA-Z0-9]+/ matches at position i of s.
MatchesAt(s, i) ==
    /\ i + Len(Whsec) <= Len(s)
    /\ SubSeq(s, i, i + Len(Whsec) - 1) = Whsec
    /\ s[i + Len(Whsec)] \in Alnum

\* The pattern without its +: the match stops after one character of the class.
MatchOneCharacter(s) ==
    LET starts == {i \in 1..Len(s) : MatchesAt(s, i)}
    IN  IF starts = {}
        THEN [found |-> FALSE, text |-> <<>>]
        ELSE LET i == CHOOSE x \in starts : \A y \in starts : x <= y
             IN  [found |-> TRUE, text |-> SubSeq(s, i, i + Len(Whsec))]

\* stdout.match(/whsec_[a-zA-Z0-9]+/): the leftmost position where the pattern
\* matches, and from there the longest run the greedy + takes; null (found is
\* FALSE) when it matches nowhere.
Match(s) ==
    LET starts == {i \in 1..Len(s) : MatchesAt(s, i)}
    IN  IF starts = {}
        THEN [found |-> FALSE, text |-> <<>>]
        ELSE LET i == CHOOSE x \in starts : \A y \in starts : x <= y
                 ends == {j \in (i + Len(Whsec))..Len(s) :
                             \A k \in (i + Len(Whsec))..j : s[k] \in Alnum}
                 j == CHOOSE x \in ends : \A y \in ends : y <= x
             IN  [found |-> TRUE, text |-> SubSeq(s, i, j)]

\* The object literal with two of its values exchanged.
EnvVarsSwapped(stripeSecretKey, stripeWebhookSecret, supabaseUrl, anonKey, serviceRoleKey, baseUrl) ==
    << [key |-> Key_STRIPE_SECRET_KEY, value |-> stripeSecretKey],
       [key |-> Key_STRIPE_WEBHOOK_SECRET, value |-> stripeWebhookSecret],
       [key |-> Key_NEXT_PUBLIC_SUPABASE_URL, value |-> supabaseUrl],
       [key |-> Key_NEXT_PUBLIC_SUPABASE_ANON_KEY, value |-> serviceRoleKey],
       [key |-> Key_SUPABASE_SERVICE_ROLE_KEY, value |-> anonKey],
       [key |-> Key_BASE_URL, value |-> baseUrl] >>

\* The object literal passed to writeEnvFile, as Object.entries lists it: the
\* property names are strings that are no array indices, so the entries come in
\* the order the literal writes them.
EnvVars(stripeSecretKey, stripeWebhookSecret, supabaseUrl, anonKey, serviceRoleKey, baseUrl) ==
    << [key |-> Key_STRIPE_SECRET_KEY, value |-> stripeSecretKey],
       [key |-> Key_STRIPE_WEBHOOK_SECRET, value |-> stripeWebhookSecret],
       [key |-> Key_NEXT_PUBLIC_SUPABASE_URL, value |-> supabaseUrl],
       [key |-> Key_NEXT_PUBLIC_SUPABASE_ANON_KEY, value |-> anonKey],
       [key |-> Key_SUPABASE_SERVICE_ROLE_KEY, value |-> serviceRoleKey],
       [key |-> Key_BASE_URL, value |-> baseUrl] >>

\* envContent with every line, the last one too, ended by "\n".
EnvContentNewlineEnded(envVars) ==
    Join([i \in 1..Len(envVars) |-> envVars[i].key \o <<"=">> \o envVars[i].value \o <<"\n">>],
         <<>>)

\* envContent of writeEnvFile: `${key}=${value}` for each entry, joined by "\n".
EnvContent(envVars) ==
    Join([i \in 1..Len(envVars) |-> envVars[i].key \o <<"=">> \o envVars[i].value],
         <<"\n">>)

\* The confirmation taken from the first letter of the answer alone.
AffirmativeFirstLetter(line) ==
    line # <<>> /\ LowerChar(line[1]) = "y"

\* answer.toLowerCase() !== 'y' is false, setup.ts:44.
Affirmative(line) ==
    toLowerCase(line) = <<"y">>

\* hasProject.toLowerCase() === 'n', setup.ts:115.
NoProjectYet(line) ==
    toLowerCase(line) = <<"n">>

\* The existing-project answer compared without toLowerCase.
ExistingProjectExactCase(line) ==
    line = <<"y">>

\* hasProject.toLowerCase() === 'y', setup.ts:126.
ExistingProject(line) ==
    toLowerCase(line) = <<"y">>

\* answer.toLowerCase() !== 'continue' is false, setup.ts:119.
TypedContinue(line) ==
    toLowerCase(line) = <<"c", "o", "n", "t", "i", "n", "u", "e">>

\* The second answer compared without toLowerCase.
TypedContinueAgainExactCase(line) ==
    line = <<"c", "o", "n", "t", "i", "n", "u", "e">>

\* The same test on the second answer, setup.ts:121.
TypedContinueAgain(line) ==
    toLowerCase(line) = <<"c", "o", "n", "t", "i", "n", "u", "e">>

(***************************************************************************)
(* The ways a step ends.  `events` is what the step did, in order.         *)
(***************************************************************************)

IsOutput(e) ==
    e.op \in {"log", "error"}

\* The step's events are added to the record of the run.
Record(events) ==
    /\ trace' = trace \o SelectSeq(events, LAMBDA e : ~IsOutput(e))
    /\ console' = console \o SelectSeq(events, IsOutput)
    /\ UNCHANGED web

\* The step reaches the next await and main() is suspended on it.
Await(next, events) ==
    /\ pc' = next
    /\ exitCode' = exitCode
    /\ Record(events)

\* process.exit(code): the process ends at once with that status.
ProcessExit(code, events) ==
    /\ pc' = "exited"
    /\ exitCode' = code
    /\ Record(events)

\* main() returns: its promise fulfils, nothing is pending and the process
\* ends with the status it has, which nothing has set.
Resolved(events) ==
    /\ pc' = "exited"
    /\ exitCode' = exitCode
    /\ Record(events)

\* An exception leaves main(): main().catch(console.error) at setup.ts:184
\* prints it on the diagnostic stream and that is all; nothing is pending and
\* the process ends with the status it has, which nothing has set.
Rejected(events, error) ==
    /\ pc' = "exited"
    /\ exitCode' = exitCode
    /\ Record(events \o <<Error(error)>>)

(***************************************************************************)
(* checkStripeCLI, setup.ts:24-77.                                         *)
(***************************************************************************)

\* getStripeSecretKey up to its prompt, setup.ts:79-84.
AskStripeSecretKey ==
    << Log("\nStep 2: Getting Stripe Secret Key"),
       Log("You can find your Stripe Secret Key at: https://dashboard.stripe.com/test/apikeys"),
       Question(QStripeSecretKey) >>

\* The outer catch without its process.exit: checkStripeCLI returns and main()
\* goes on.
NotInstalledNoExit(seen) ==
    Await("secretKey", seen \o
        << Error("Stripe CLI is not installed. Please install it and try again."),
           Log("To install Stripe CLI, follow these steps:"),
           Log("1. Visit: https://docs.stripe.com/stripe-cli"),
           Log("2. Download and install the Stripe CLI for your operating system"),
           Log("3. After installation, run: stripe login"),
           Log("After installation and authentication, please run this setup script again.") >>
        \o AskStripeSecretKey)

\* The outer catch, setup.ts:62-76.
NotInstalled(seen) ==
    ProcessExit(1, seen \o
        << Error("Stripe CLI is not installed. Please install it and try again."),
           Log("To install Stripe CLI, follow these steps:"),
           Log("1. Visit: https://docs.stripe.com/stripe-cli"),
           Log("2. Download and install the Stripe CLI for your operating system"),
           Log("3. After installation, run: stripe login"),
           Log("After installation and authentication, please run this setup script again.") >>)

\* The operator did not confirm the login, setup.ts:44-49.
NotConfirmed(seen) ==
    ProcessExit(1, seen \o
        << Log("Please authenticate with Stripe CLI and run this script again.") >>)

\* The inner catch without its process.exit.
VerifyFailedNoExit(seen) ==
    Await("secretKey", seen \o
        << Error("Failed to verify Stripe CLI authentication. Please try again.") >>
        \o AskStripeSecretKey)

\* The second probe failed, setup.ts:55-60.
VerifyFailed(seen) ==
    ProcessExit(1, seen \o
        << Error("Failed to verify Stripe CLI authentication. Please try again.") >>)

\* main() starts and runs checkStripeCLI up to its first await, setup.ts:25-29.
Main ==
    /\ pc = "main"
    /\ Await("version",
             << Log("Step 1: Checking if Stripe CLI is installed and authenticated..."),
                Exec(CmdVersion) >>)
    /\ UNCHANGED <<envFile, envFile0, locals>>

\* `stripe --version` settles, setup.ts:29-34 and 62-76.
StripeVersion ==
    /\ pc = "version"
    /\ \E ok \in BOOLEAN :
          LET res == ExecResult(CmdVersion, ok, <<>>)
          IN  IF ok
              THEN Await("auth", <<res, Log("Stripe CLI is installed."), Exec(CmdConfigList)>>)
              ELSE NotInstalled(<<res>>)
    /\ UNCHANGED <<envFile, envFile0, locals>>

\* The first `stripe config --list` settles, setup.ts:34-43.
StripeConfigList ==
    /\ pc = "auth"
    /\ \E ok \in BOOLEAN :
          LET res == ExecResult(CmdConfigList, ok, <<>>)
          IN  IF ok
              THEN Await("secretKey",
                         <<res, Log("Stripe CLI is authenticated.")>> \o AskStripeSecretKey)
              ELSE Await("authAnswer",
                         << res,
                            Log("Stripe CLI is not authenticated or the authentication has expired."),
                            Log("Please run: stripe login"),
                            Question(QAuthenticated) >>)
    /\ UNCHANGED <<envFile, envFile0, locals>>

\* The operator answers the confirmation prompt, setup.ts:41-53.
AuthAnswer ==
    /\ pc = "authAnswer"
    /\ \E line \in YesNoAnswers :
          /\ authAnswer' = line
          /\ IF Affirmative(line)
             THEN Await("reauth", <<Answer(QAuthenticated, line), Exec(CmdConfigList)>>)
             ELSE NotConfirmed(<<Answer(QAuthenticated, line)>>)
    /\ UNCHANGED <<envFile, envFile0, STRIPE_SECRET_KEY, STRIPE_WEBHOOK_SECRET,
                   hasProject, answer, answerAgain, NEXT_PUBLIC_SUPABASE_URL,
                   NEXT_PUBLIC_SUPABASE_ANON_KEY, SUPABASE_SERVICE_ROLE_KEY>>

\* The second `stripe config --list` settles, setup.ts:53-60.
StripeConfigListAgain ==
    /\ pc = "reauth"
    /\ \E ok \in BOOLEAN :
          LET res == ExecResult(CmdConfigList, ok, <<>>)
          IN  IF ok
              THEN Await("secretKey",
                         <<res, Log("Stripe CLI authentication confirmed.")>> \o AskStripeSecretKey)
              ELSE VerifyFailed(<<res>>)
    /\ UNCHANGED <<envFile, envFile0, locals>>

(***************************************************************************)
(* getStripeSecretKey and createStripeWebhookSecret, setup.ts:79-108.      *)
(***************************************************************************)

\* checkSupabaseProject up to its first prompt, setup.ts:111-113.
AskHasProject ==
    << Log("\nStep 4: Checking Supabase Project Setup"),
       Question(QHasProject) >>

\* The catch without its `throw error`: createStripeWebhookSecret returns and
\* main() goes on.
CreateWebhookFailedSwallowed(seen, win32, error) ==
    Await("hasProject", seen \o
        << Error("Failed to create Stripe webhook secret. Check your Stripe CLI installation and permissions.") >> \o
        (IF win32
         THEN <<Log("Note: On Windows, you may need to run this script as an administrator.")>>
         ELSE <<>>) \o
        AskHasProject)

\* The catch of createStripeWebhookSecret, setup.ts:97-107: a message, a hint
\* on Windows, and the error is thrown again, out of main().
CreateWebhookFailed(seen, win32, error) ==
    Rejected(seen \o
        << Error("Failed to create Stripe webhook secret. Check your Stripe CLI installation and permissions.") >> \o
        (IF win32
         THEN <<Log("Note: On Windows, you may need to run this script as an administrator.")>>
         ELSE <<>>),
        error)

\* The operator answers the secret-key prompt; createStripeWebhookSecret runs
\* up to its await, setup.ts:84, 163-164 and 88-90.
StripeSecretKey ==
    /\ pc = "secretKey"
    /\ \E line \in FreeAnswers :
          /\ STRIPE_SECRET_KEY' = line
          /\ Await("listen",
                   << Answer(QStripeSecretKey, line),
                      Log("\nStep 3: Creating Stripe webhook secret..."),
                      Exec(CmdListen) >>)
    /\ UNCHANGED <<envFile, envFile0, authAnswer, STRIPE_WEBHOOK_SECRET,
                   hasProject, answer, answerAgain, NEXT_PUBLIC_SUPABASE_URL,
                   NEXT_PUBLIC_SUPABASE_ANON_KEY, SUPABASE_SERVICE_ROLE_KEY>>

\* `stripe listen --print-secret` settles, setup.ts:90-107 and 164-165, its
\* standard output, when it succeeds, being one of `outputs`.  os.platform() is
\* an input of the run.
ListenSettles(outputs) ==
    /\ pc = "listen"
    /\ \E win32 \in BOOLEAN :
          \/ \* the command failed: execAsync rejects
             /\ CreateWebhookFailed(<<ExecResult(CmdListen, FALSE, <<>>)>>, win32,
                                    "Command failed: stripe listen --print-secret")
             /\ UNCHANGED STRIPE_WEBHOOK_SECRET
          \/ \* the command succeeded and printed stdout
             \E stdout \in outputs :
                LET res == ExecResult(CmdListen, TRUE, stdout)
                    match == Match(stdout)
                IN  IF ~match.found
                    THEN /\ CreateWebhookFailed(<<res>>, win32,
                                                "Failed to extract Stripe webhook secret")
                         /\ UNCHANGED STRIPE_WEBHOOK_SECRET
                    ELSE /\ STRIPE_WEBHOOK_SECRET' = match.text
                         /\ Await("hasProject",
                                  <<res, Log("Stripe webhook secret created.")>> \o AskHasProject)
    /\ UNCHANGED <<envFile, envFile0, authAnswer, STRIPE_SECRET_KEY,
                   hasProject, answer, answerAgain, NEXT_PUBLIC_SUPABASE_URL,
                   NEXT_PUBLIC_SUPABASE_ANON_KEY, SUPABASE_SERVICE_ROLE_KEY>>

StripeListen ==
    ListenSettles(ListenOutputs)

(***************************************************************************)
(* checkSupabaseProject, setup.ts:110-132.                                 *)
(***************************************************************************)

\* main() calling getSupabaseKeysAnonKey where getSupabaseKeysApiUrl belongs.
AskAnonKeyFirst ==
    << Question(QAnonKey) >>

\* getSupabaseKeysApiUrl up to its prompt, setup.ts:134-139.
AskApiUrl ==
    << Log("\nStep 5: Getting Supabase Keys"),
       Log("You can find your Supabase Keys at: supabase.com/dashboard/project/<project-id>/settings/api"),
       Question(QApiUrl) >>

\* The else branch without its process.exit.
InvalidInputNoExit(seen) ==
    Await("apiUrl", seen \o
        << Error("Invalid input. Please enter \"y\" or \"n\".") >> \o AskApiUrl)

\* The answer is neither y nor n, setup.ts:128-131.
InvalidInput(seen) ==
    ProcessExit(1, seen \o
        << Error("Invalid input. Please enter \"y\" or \"n\".") >>)

\* The refusal without its process.exit.
SetupCancelledNoExit(seen) ==
    Await("apiUrl", seen \o
        << Error("Setup cancelled. Please create a Supabase project and try again.") >>
        \o AskApiUrl)

\* The refusal answered by one more prompt instead of process.exit.
SetupCancelledAsksAgain(seen) ==
    Await("continueAgain", seen \o
        << Error("Setup cancelled. Please create a Supabase project and try again."),
           Question(QContinueAgain) >>)

\* Neither confirmation was "continue", setup.ts:121-124.
SetupCancelled(seen) ==
    ProcessExit(1, seen \o
        << Error("Setup cancelled. Please create a Supabase project and try again.") >>)

\* The operator answers the project-existence question, setup.ts:113-131.
HasProjectAnswer ==
    /\ pc = "hasProject"
    /\ \E line \in YesNoAnswers :
          /\ hasProject' = line
          /\ IF NoProjectYet(line)
             THEN Await("continue",
                        << Answer(QHasProject, line),
                           Log("You can create a new Supabase project at: https://database.new"),
                           Question(QContinue) >>)
             ELSE IF ExistingProject(line)
             THEN Await("apiUrl",
                        << Answer(QHasProject, line),
                           Log("Great! Continuing with existing Supabase project...") >>
                        \o AskApiUrl)
             ELSE InvalidInput(<<Answer(QHasProject, line)>>)
    /\ UNCHANGED <<envFile, envFile0, authAnswer, STRIPE_SECRET_KEY,
                   STRIPE_WEBHOOK_SECRET, answer, answerAgain, NEXT_PUBLIC_SUPABASE_URL,
                   NEXT_PUBLIC_SUPABASE_ANON_KEY, SUPABASE_SERVICE_ROLE_KEY>>

\* The operator answers the first "continue" prompt, setup.ts:117-120.
ContinueAnswer ==
    /\ pc = "continue"
    /\ \E line \in ContinueAnswers :
          /\ answer' = line
          /\ IF TypedContinue(line)
             THEN Await("apiUrl", <<Answer(QContinue, line)>> \o AskApiUrl)
             ELSE Await("continueAgain",
                        <<Answer(QContinue, line), Question(QContinueAgain)>>)
    /\ UNCHANGED <<envFile, envFile0, authAnswer, STRIPE_SECRET_KEY,
                   STRIPE_WEBHOOK_SECRET, hasProject, answerAgain,
                   NEXT_PUBLIC_SUPABASE_URL, NEXT_PUBLIC_SUPABASE_ANON_KEY,
                   SUPABASE_SERVICE_ROLE_KEY>>

\* The operator answers the second "continue" prompt, setup.ts:120-124.
ContinueAgainAnswer ==
    /\ pc = "continueAgain"
    /\ \E line \in ContinueAnswers :
          /\ answerAgain' = line
          /\ IF TypedContinueAgain(line)
             THEN Await("apiUrl", <<Answer(QContinueAgain, line)>> \o AskApiUrl)
             ELSE SetupCancelled(<<Answer(QContinueAgain, line)>>)
    /\ UNCHANGED <<envFile, envFile0, authAnswer, STRIPE_SECRET_KEY,
                   STRIPE_WEBHOOK_SECRET, hasProject, answer,
                   NEXT_PUBLIC_SUPABASE_URL, NEXT_PUBLIC_SUPABASE_ANON_KEY,
                   SUPABASE_SERVICE_ROLE_KEY>>

(***************************************************************************)
(* The three backend-key prompts and writeEnvFile, setup.ts:134-182.       *)
(***************************************************************************)

\* The operator answers the API-URL prompt, setup.ts:139, 166 and 143.
ApiUrlAnswer ==
    /\ pc = "apiUrl"
    /\ \E line \in FreeAnswers :
          /\ NEXT_PUBLIC_SUPABASE_URL' = line
          /\ Await("anonKey", <<Answer(QApiUrl, line), Question(QAnonKey)>>)
    /\ UNCHANGED <<envFile, envFile0, authAnswer, STRIPE_SECRET_KEY,
                   STRIPE_WEBHOOK_SECRET, hasProject, answer, answerAgain,
                   NEXT_PUBLIC_SUPABASE_ANON_KEY, SUPABASE_SERVICE_ROLE_KEY>>

\* The operator answers the anon-key prompt, setup.ts:143, 167 and 147.
AnonKeyAnswer ==
    /\ pc = "anonKey"
    /\ \E line \in FreeAnswers :
          /\ NEXT_PUBLIC_SUPABASE_ANON_KEY' = line
          /\ Await("serviceRoleKey", <<Answer(QAnonKey, line), Question(QServiceRoleKey)>>)
    /\ UNCHANGED <<envFile, envFile0, authAnswer, STRIPE_SECRET_KEY,
                   STRIPE_WEBHOOK_SECRET, hasProject, answer, answerAgain,
                   NEXT_PUBLIC_SUPABASE_URL, SUPABASE_SERVICE_ROLE_KEY>>

\* The operator answers the service-role-key prompt; main() builds the object
\* and writeEnvFile runs up to its await, setup.ts:147, 168-179 and 152-157.
ServiceRoleKeyAnswer ==
    /\ pc = "serviceRoleKey"
    /\ \E line \in FreeAnswers :
          /\ SUPABASE_SERVICE_ROLE_KEY' = line
          /\ Await("writeFile",
                   << Answer(QServiceRoleKey, line),
                      Log("Step 6: Writing environment variables to .env"),
                      WriteFile(EnvPath,
                                EnvContent(EnvVars(STRIPE_SECRET_KEY,
                                                   STRIPE_WEBHOOK_SECRET,
                                                   NEXT_PUBLIC_SUPABASE_URL,
                                                   NEXT_PUBLIC_SUPABASE_ANON_KEY,
                                                   line,
                                                   BASE_URL))) >>)
    /\ UNCHANGED <<envFile, envFile0, authAnswer, STRIPE_SECRET_KEY,
                   STRIPE_WEBHOOK_SECRET, hasProject, answer, answerAgain,
                   NEXT_PUBLIC_SUPABASE_URL, NEXT_PUBLIC_SUPABASE_ANON_KEY>>

\* The content handed to the fs.writeFile that is pending.
PendingContent ==
    trace[Len(trace)].data

\* fs.writeFile settles, setup.ts:157-158 and 181-184.  It opens the file
\* with flag 'w' and writes the content: on success the file holds exactly the
\* content; when it fails the file is as it was (it could not be opened) or is
\* left truncated (it was opened and the write failed; of the prefixes of the
\* content a failed write can leave behind, the model keeps the empty one).
WriteEnvFile ==
    /\ pc = "writeFile"
    /\ \/ /\ envFile' = [exists |-> TRUE, content |-> PendingContent]
          /\ Resolved(<< WriteResult(EnvPath, TRUE),
                         Log(".env file created with the necessary variables."),
                         Log("Setup completed successfully!") >>)
       \/ /\ envFile' \in {envFile, [exists |-> TRUE, content |-> <<>>]}
          /\ Rejected(<<WriteResult(EnvPath, FALSE)>>, "Error: open or write of .env failed")
    /\ UNCHANGED <<envFile0, locals>>

(***************************************************************************)
(* The specification.                                                      *)
(***************************************************************************)

\* An environment variable: unset (undefined), or set to a string.
Unset ==
    [defined |-> FALSE, value |-> <<>>]

SetTo(value) ==
    [defined |-> TRUE, value |-> value]

\* A response of the framework.  `forwarded` is the request cookies that
\* NextResponse.next({request}) hands on to the application.
Response(kind, location, forwarded, cookies, message) ==
    [kind |-> kind, location |-> location, forwarded |-> forwarded,
     cookies |-> cookies, message |-> message]

NoResponse ==
    Response("none", <<>>, {}, {}, "")

NoRequest ==
    [pathname |-> <<>>, cookies |-> {}]

\* No middleware call has been made: the state of the web application while
\* the setup script runs.
WebAtRest ==
    /\ processEnv = [NEXT_PUBLIC_SUPABASE_URL |-> Unset,
                     NEXT_PUBLIC_SUPABASE_ANON_KEY |-> Unset]
    /\ mwpc = "idle"
    /\ request = NoRequest
    /\ followed = FALSE
    /\ supabaseResponse = NoResponse
    /\ clients = <<>>
    /\ lookups = 0
    /\ passed = <<>>
    /\ user = "none"
    /\ result = NoResponse

Init ==
    /\ pc = "main"
    /\ exitCode = 0
    /\ trace = <<>>
    /\ console = <<>>
    /\ envFile0 \in InitialEnvFiles
    /\ envFile = envFile0
    /\ authAnswer = <<>>
    /\ STRIPE_SECRET_KEY = <<>>
    /\ STRIPE_WEBHOOK_SECRET = <<>>
    /\ hasProject = <<>>
    /\ answer = <<>>
    /\ answerAgain = <<>>
    /\ NEXT_PUBLIC_SUPABASE_URL = <<>>
    /\ NEXT_PUBLIC_SUPABASE_ANON_KEY = <<>>
    /\ SUPABASE_SERVICE_ROLE_KEY = <<>>
    /\ WebAtRest

Next ==
    \/ Main
    \/ StripeVersion
    \/ StripeConfigList
    \/ AuthAnswer
    \/ StripeConfigListAgain
    \/ StripeSecretKey
    \/ StripeListen
    \/ HasProjectAnswer
    \/ ContinueAnswer
    \/ ContinueAgainAnswer
    \/ ApiUrlAnswer
    \/ AnonKeyAnswer
    \/ ServiceRoleKeyAnswer
    \/ WriteEnvFile

Spec ==
    Init /\ [][Next]_vars

(***************************************************************************)
(* The extractor on its own: the script suspended on the listen command    *)
(* (the tool verified at the first probe, the secret key typed), and the   *)
(* command settling with any output made of a few pieces.                  *)
(***************************************************************************)

\* What an output is made of: the prefix of a token, a prefix cut short, the
\* three kinds of character the class accepts, and one it does not.
OutputPieces ==
    { <<"w", "h", "s", "e", "c", "_">>, <<"w", "h", "s", "e", "c">>,
      <<"a">>, <<"Z">>, <<"7">>, <<"-">> }

\* The concatenations of at most n pieces.
RECURSIVE PieceStrings(_)
PieceStrings(n) ==
    IF n = 0 THEN { <<>> }
    ELSE LET shorter == PieceStrings(n - 1)
         IN  shorter \cup { t \o p : t \in shorter, p \in OutputPieces }

ExtractOutputs ==
    PieceStrings(MaxPieces)

\* main() suspended on the listen command, setup.ts:90.
ExtractInit ==
    /\ pc = "listen"
    /\ exitCode = 0
    /\ \E line \in FreeAnswers :
          /\ STRIPE_SECRET_KEY = line
          /\ trace = << Exec(CmdVersion), ExecResult(CmdVersion, TRUE, <<>>),
                        Exec(CmdConfigList), ExecResult(CmdConfigList, TRUE, <<>>),
                        Question(QStripeSecretKey), Answer(QStripeSecretKey, line),
                        Exec(CmdListen) >>
    /\ console = << Log("Step 1: Checking if Stripe CLI is installed and authenticated..."),
                    Log("Stripe CLI is installed."),
                    Log("Stripe CLI is authenticated.") >> \o
                 SelectSeq(AskStripeSecretKey, IsOutput) \o
                 << Log("\nStep 3: Creating Stripe webhook secret...") >>
    /\ envFile0 \in InitialEnvFiles
    /\ envFile = envFile0
    /\ authAnswer = <<>>
    /\ STRIPE_WEBHOOK_SECRET = <<>>
    /\ hasProject = <<>>
    /\ answer = <<>>
    /\ answerAgain = <<>>
    /\ NEXT_PUBLIC_SUPABASE_URL = <<>>
    /\ NEXT_PUBLIC_SUPABASE_ANON_KEY = <<>>
    /\ SUPABASE_SERVICE_ROLE_KEY = <<>>
    /\ WebAtRest

ExtractListen ==
    ListenSettles(ExtractOutputs)

ExtractNext ==
    ExtractListen

ExtractSpec ==
    ExtractInit /\ [][ExtractNext]_vars

(***************************************************************************)
(* Reading the trace.                                                      *)
(***************************************************************************)

\* The positions of the trace that hold an event `op` with argument `arg`.
At(op, arg) ==
    {i \in DOMAIN trace : trace[i].op = op /\ trace[i].arg = arg}

Count(op, arg) ==
    Cardinality(At(op, arg))

CountOp(op) ==
    Cardinality({i \in DOMAIN trace : trace[i].op = op})

Asked(query) ==
    \E i \in DOMAIN trace : trace[i].op = "question" /\ trace[i].arg = query

Answered(query) ==
    \E i \in DOMAIN trace : trace[i].op = "answer" /\ trace[i].arg = query

\* The line the operator typed at `query` (the prompt is issued at most once).
AnswerTo(query) ==
    trace[CHOOSE i \in DOMAIN trace : trace[i].op = "answer" /\ trace[i].arg = query].data

\* Some invocation of `command` has settled with outcome `ok`.
Settled(command, ok) ==
    \E i \in DOMAIN trace :
        trace[i].op = "execResult" /\ trace[i].arg = command /\ trace[i].ok = ok

\* The i-th settled invocation of `command`, in the order they settled.
ResultsOf(command) ==
    SelectSeq(trace, LAMBDA e : e.op = "execResult" /\ e.arg = command)

Exited ==
    pc = "exited"

\* s split at every occurrence of the character c.
Split(s, c) ==
    LET n == Len(s)
        cut == SelectSeq([i \in 1..n |-> i], LAMBDA i : s[i] = c)
        m == Len(cut)
        from(k) == IF k = 1 THEN 1 ELSE cut[k - 1] + 1
        to(k) == IF k = m + 1 THEN n ELSE cut[k] - 1
    IN  [k \in 1..(m + 1) |-> SubSeq(s, from(k), to(k))]

\* The part of a line before, and after, its first "=".
KeyOf(line) ==
    Split(line, "=")[1]

ValueOf(line) ==
    SubSeq(line, Len(KeyOf(line)) + 2, Len(line))

\* The six fixed keys in the order the specification gives them.
FixedKeys ==
    << Key_STRIPE_SECRET_KEY, Key_STRIPE_WEBHOOK_SECRET, Key_NEXT_PUBLIC_SUPABASE_URL,
       Key_NEXT_PUBLIC_SUPABASE_ANON_KEY, Key_SUPABASE_SERVICE_ROLE_KEY, Key_BASE_URL >>

\* The outcomes of the steps, read from the trace.
ToolNotInstalled ==
    Settled(CmdVersion, FALSE)

FirstProbeFailed ==
    Len(ResultsOf(CmdConfigList)) >= 1 /\ ~ResultsOf(CmdConfigList)[1].ok

AuthRefused ==
    Answered(QAuthenticated) /\ toLowerCase(AnswerTo(QAuthenticated)) # <<"y">>

AuthAffirmed ==
    Answered(QAuthenticated) /\ toLowerCase(AnswerTo(QAuthenticated)) = <<"y">>

ReprobeFailed ==
    Len(ResultsOf(CmdConfigList)) >= 2 /\ ~ResultsOf(CmdConfigList)[2].ok

ReprobeSucceeded ==
    Len(ResultsOf(CmdConfigList)) >= 2 /\ ResultsOf(CmdConfigList)[2].ok

ToolVerified ==
    Settled(CmdConfigList, TRUE)

ListenCommandFailed ==
    Settled(CmdListen, FALSE)

NoTokenInOutput ==
    \E i \in At("execResult", CmdListen) :
        trace[i].ok /\ \A k \in 1..Len(trace[i].data) : ~MatchesAt(trace[i].data, k)

WebhookExtracted ==
    \E i \in At("execResult", CmdListen) :
        trace[i].ok /\ \E k \in 1..Len(trace[i].data) : MatchesAt(trace[i].data, k)

InvalidGateInput ==
    /\ Answered(QHasProject)
    /\ toLowerCase(AnswerTo(QHasProject)) \notin {<<"y">>, <<"n">>}

Continue ==
    <<"c", "o", "n", "t", "i", "n", "u", "e">>

FirstConfirmationMatches ==
    Answered(QContinue) /\ toLowerCase(AnswerTo(QContinue)) = Continue

SecondConfirmationMatches ==
    Answered(QContinueAgain) /\ toLowerCase(AnswerTo(QContinueAgain)) = Continue

GateRefused ==
    /\ Answered(QContinue) /\ ~FirstConfirmationMatches
    /\ Answered(QContinueAgain) /\ ~SecondConfirmationMatches

GatePassed ==
    /\ Answered(QHasProject)
    /\ \/ toLowerCase(AnswerTo(QHasProject)) = <<"y">>
       \/ /\ toLowerCase(AnswerTo(QHasProject)) = <<"n">>
          /\ FirstConfirmationMatches \/ SecondConfirmationMatches

WriteFailed ==
    \E i \in At("writeResult", EnvPath) : ~trace[i].ok

EnvWritten ==
    \E i \in At("writeResult", EnvPath) : trace[i].ok

FatalStep ==
    \/ ToolNotInstalled
    \/ AuthRefused
    \/ ReprobeFailed
    \/ ListenCommandFailed
    \/ NoTokenInOutput
    \/ InvalidGateInput
    \/ GateRefused
    \/ WriteFailed

(***************************************************************************)
(* The claims.                                                             *)
(***************************************************************************)

\* C1: a run that has ended has exit status 0 exactly when every step
\* succeeded and .env was written, and exit status 1 when it ended on a fatal
\* step (tool not installed, authentication refused or re-probe failed,
\* listen command failed, no whsec_ token in its output, invalid or refused
\* project-gate input, failure to write .env).
C1_ExitStatus ==
    Exited =>
        /\ exitCode = 0 <=> (EnvWritten /\ ~FatalStep)
        /\ FatalStep => exitCode = 1

\* The lines of .env as it is now.
EnvLines ==
    Split(envFile.content, "\n")

\* A fatal step before the file write.
FatalBeforeAssembly ==
    \/ ToolNotInstalled
    \/ AuthRefused
    \/ ReprobeFailed
    \/ ListenCommandFailed
    \/ NoTokenInOutput
    \/ InvalidGateInput
    \/ GateRefused

\* The prompts of the project gate and of the backend keys.
GateAndKeyPrompts ==
    {QHasProject, QContinue, QContinueAgain, QApiUrl, QAnonKey, QServiceRoleKey}

\* C2: in every reachable state .env differs from what it was at the start
\* only if the tool verification, the secret-key prompt, the webhook
\* extraction, the project gate and the three backend-key prompts have all
\* completed successfully and none of the fatal steps before assembly has
\* happened (so a run that fails at an earlier step leaves .env as it was).
C2_EnvUntouchedBeforeAssembly ==
    envFile # envFile0 =>
        /\ ToolVerified
        /\ Answered(QStripeSecretKey)
        /\ WebhookExtracted
        /\ GatePassed
        /\ Answered(QApiUrl)
        /\ Answered(QAnonKey)
        /\ Answered(QServiceRoleKey)
        /\ ~FatalBeforeAssembly

\* C2 witness: the run went through every step and an existing .env was
\* changed.
C2_Witness ==
    /\ Exited
    /\ envFile0.exists
    /\ envFile # envFile0
    /\ GatePassed

\* C3: after a successful run .env is exactly six lines KEY=VALUE, the i-th
\* line carrying the i-th fixed key, each key once, joined by single newlines
\* with no blank line and no trailing newline, whatever .env held before.
C3_SixKeyValueLines ==
    (Exited /\ EnvWritten) =>
        LET lines == EnvLines
            keys == [i \in 1..Len(lines) |-> KeyOf(lines[i])]
        IN  /\ envFile.exists
            /\ Len(lines) = 6
            /\ \A i \in 1..Len(lines) :
                  /\ lines[i] # <<>>
                  /\ "=" \in Range(lines[i])
                  /\ i <= Len(FixedKeys) /\ keys[i] = FixedKeys[i]
            /\ \A k \in 1..Len(FixedKeys) :
                  Cardinality({i \in 1..Len(lines) : keys[i] = FixedKeys[k]}) = 1
            /\ envFile.content # <<>>
            /\ envFile.content[Len(envFile.content)] # "\n"

\* C3 witness: a successful run over an existing .env.
C3_Witness ==
    /\ Exited
    /\ EnvWritten
    /\ envFile0.exists

\* C4: after a successful run the value of each line of .env is the value
\* captured for that key: the answer to the secret-key prompt, the token
\* extracted from the listen output, the answers to the API-URL, anon-key and
\* service-role-key prompts, and the literal http://localhost:3000.
C4_ValuesAreTheCapturedOnes ==
    (Exited /\ EnvWritten) =>
        LET lines == EnvLines
        IN  /\ Len(lines) = 6
            /\ ValueOf(lines[1]) = AnswerTo(QStripeSecretKey)
            /\ ValueOf(lines[2]) = Match(ResultsOf(CmdListen)[1].data).text
            /\ ValueOf(lines[3]) = AnswerTo(QApiUrl)
            /\ ValueOf(lines[4]) = AnswerTo(QAnonKey)
            /\ ValueOf(lines[5]) = AnswerTo(QServiceRoleKey)
            /\ ValueOf(lines[6]) =
                  <<"h", "t", "t", "p", ":", "/", "/", "l", "o", "c", "a", "l", "h", "o", "s", "t", ":", "3", "0", "0", "0">>

\* C4 witness: a successful run in which neighbouring answers differ and the
\* secret key holds the separator "=".
C4_Witness ==
    /\ Exited
    /\ EnvWritten
    /\ AnswerTo(QAnonKey) # AnswerTo(QServiceRoleKey)
    /\ AnswerTo(QApiUrl) # AnswerTo(QAnonKey)
    /\ "=" \in Range(AnswerTo(QStripeSecretKey))
    /\ AnswerTo(QStripeSecretKey) # AnswerTo(QApiUrl)

\* C5: if `stripe --version` fails the run has ended with a non-zero status,
\* and the authentication probe was never run, no prompt was issued and the
\* listen command was never invoked.
C5_NotInstalledStopsAtOnce ==
    ToolNotInstalled =>
        /\ Exited
        /\ exitCode # 0
        /\ Count("exec", CmdConfigList) = 0
        /\ CountOp("question") = 0
        /\ Count("exec", CmdListen) = 0

\* C5 witness: the installation probe failed.
C5_Witness ==
    ToolNotInstalled /\ Exited

\* C6: if the first authentication probe fails and the answer to the
\* confirmation prompt is not y (case-insensitive), the run has ended with a
\* non-zero status, the probe was run once only and no other prompt was issued.
C6_RefusalStopsWithoutReprobe ==
    (FirstProbeFailed /\ AuthRefused) =>
        /\ Exited
        /\ exitCode # 0
        /\ Count("exec", CmdConfigList) = 1
        /\ CountOp("question") = 1

\* C6 witness: the operator answered "yes", which is not the token y.
C6_Witness ==
    /\ FirstProbeFailed
    /\ AuthRefused
    /\ AnswerTo(QAuthenticated) = <<"y", "e", "s">>

\* C7: the authentication probe runs at most twice and the confirmation
\* prompt is issued at most once; the probe runs a second time exactly after a
\* failed first probe and an affirmative answer; a failed re-probe ends the run
\* with a non-zero status before the secret-key prompt, and after a successful
\* one the next thing the script does with the outside is the secret-key prompt.
C7_ReprobeExactlyOnce ==
    /\ Count("exec", CmdConfigList) <= 2
    /\ Count("question", QAuthenticated) <= 1
    /\ Count("exec", CmdConfigList) = 2 <=> (FirstProbeFailed /\ AuthAffirmed)
    /\ ReprobeFailed =>
          /\ Exited
          /\ exitCode # 0
          /\ ~Asked(QStripeSecretKey)
    /\ ReprobeSucceeded =>
          /\ Asked(QStripeSecretKey)
          /\ LET r == CHOOSE i \in At("execResult", CmdConfigList) :
                         \A j \in At("execResult", CmdConfigList) : j <= i
                 q == CHOOSE i \in At("question", QStripeSecretKey) : TRUE
             IN  /\ r < q
                 /\ q = r + 1

\* C7 witness: the first probe failed, the operator confirmed, the re-probe
\* failed.
C7_Witness ==
    /\ AuthAffirmed
    /\ ReprobeFailed
    /\ Exited

\* C8: the listen command is invoked at most once; if it fails, or succeeds
\* with output that holds no whsec_ token, the run has ended, and no
\* project-gate prompt and no backend-key prompt was issued and .env was not
\* written.
C8_ListenFailureIsFinal ==
    /\ Count("exec", CmdListen) <= 1
    /\ (ListenCommandFailed \/ NoTokenInOutput) =>
          /\ Exited
          /\ \A q \in GateAndKeyPrompts : ~Asked(q)
          /\ CountOp("writeFile") = 0
          /\ envFile = envFile0

\* C8 witness: the listen command succeeded and printed no token.
C8_Witness ==
    NoTokenInOutput /\ Exited

\* C9: with first answer n, the gate is confirmed (the script goes on to the
\* API-URL prompt) if and only if the first or the second confirmation answer
\* is "continue" case-insensitively; the second confirmation prompt is issued
\* only after a first answer that did not match; when both do not match the
\* run has ended with a non-zero status, and no confirmation prompt is issued a
\* second time.
C9_SecondChance ==
    (Answered(QHasProject) /\ toLowerCase(AnswerTo(QHasProject)) = <<"n">>) =>
        LET first == FirstConfirmationMatches
            second == SecondConfirmationMatches
            firstMissed == Answered(QContinue) /\ ~first
            secondMissed == Answered(QContinueAgain) /\ ~second
        IN  /\ Asked(QApiUrl) <=> (first \/ second)
            /\ Asked(QContinueAgain) <=> firstMissed
            /\ (firstMissed /\ secondMissed) => (Exited /\ exitCode # 0)
            /\ Count("question", QContinue) = 1
            /\ Count("question", QContinueAgain) <= 1

\* C9 witness: n, then an answer that is not "continue", then "continue".
C9_Witness ==
    /\ Answered(QHasProject) /\ AnswerTo(QHasProject) = <<"n">>
    /\ Answered(QContinue) /\ AnswerTo(QContinue) = <<"n", "o">>
    /\ Answered(QContinueAgain) /\ AnswerTo(QContinueAgain) = Continue
    /\ Asked(QApiUrl)

\* C10: if the answer to the project-existence question is neither y nor n
\* (case-insensitive), the run ends at once with a non-zero status: the answer
\* is the last dealing with the outside, no confirmation prompt and no
\* backend-key prompt is issued, and .env is not written.
C10_InvalidInputStopsAtOnce ==
    InvalidGateInput =>
        /\ Exited
        /\ exitCode # 0
        /\ \A q \in GateAndKeyPrompts \ {QHasProject} : ~Asked(q)
        /\ CountOp("writeFile") = 0
        /\ envFile = envFile0
        /\ trace[Len(trace)].op = "answer"
        /\ trace[Len(trace)].arg = QHasProject

\* C10 witness: the operator answered "maybe".
C10_Witness ==
    /\ Answered(QHasProject)
    /\ AnswerTo(QHasProject) = <<"m", "a", "y", "b", "e">>
    /\ Exited

\* C11: if the answer to the project-existence question is y or Y, no
\* "continue" confirmation prompt is issued and the next thing the script does
\* with the outside is the API-URL prompt.
C11_ExistingProjectGoesOn ==
    (Answered(QHasProject) /\ AnswerTo(QHasProject) \in {<<"y">>, <<"Y">>}) =>
        LET a == CHOOSE i \in DOMAIN trace :
                     trace[i].op = "answer" /\ trace[i].arg = QHasProject
        IN  /\ ~Asked(QContinue)
            /\ ~Asked(QContinueAgain)
            /\ a + 1 <= Len(trace)
            /\ trace[a + 1].op = "question"
            /\ trace[a + 1].arg = QApiUrl

\* C11 witness: the operator answered Y and the API-URL prompt was issued.
C11_Witness ==
    /\ Answered(QHasProject)
    /\ AnswerTo(QHasProject) = <<"Y">>
    /\ Asked(QApiUrl)

\* The step of the pipeline a command, a prompt or the file write belongs to,
\* numbered in the order the specification gives: tool verification,
\* secret-key prompt, webhook extraction, project gate, API-URL prompt,
\* anon-key prompt, service-role-key prompt, file write.
StepOf(arg) ==
    CASE arg \in {CmdVersion, CmdConfigList, QAuthenticated} -> 1
      [] arg = QStripeSecretKey -> 2
      [] arg = CmdListen -> 3
      [] arg \in {QHasProject, QContinue, QContinueAgain} -> 4
      [] arg = QApiUrl -> 5
      [] arg = QAnonKey -> 6
      [] arg = QServiceRoleKey -> 7
      [] arg = EnvPath -> 8

\* The event that settles what the event `op` started.
Settles(op) ==
    CASE op = "exec" -> "execResult"
      [] op = "question" -> "answer"
      [] op = "writeFile" -> "writeResult"

\* The commands, prompts and writes that a run makes once at most.
OnceOnly ==
    { <<"exec", CmdVersion>>, <<"exec", CmdListen>>, <<"writeFile", EnvPath>>,
      <<"question", QAuthenticated>>, <<"question", QStripeSecretKey>>,
      <<"question", QHasProject>>, <<"question", QContinue>>,
      <<"question", QContinueAgain>>, <<"question", QApiUrl>>,
      <<"question", QAnonKey>>, <<"question", QServiceRoleKey>> }

\* C12: the steps occur in the fixed order.  The trace alternates between a
\* command, prompt or write and its own outcome (nothing starts before the
\* previous thing has completed); the first event belongs to the first step;
\* from one event to the next the step stays or moves on by exactly one, and
\* it moves on only after an outcome (no step is skipped, none comes back);
\* and no command or prompt outside the authentication probe is made twice.
C12_FixedOrder ==
    /\ \A i \in DOMAIN trace :
          IF i % 2 = 1
          THEN trace[i].op \in {"exec", "question", "writeFile"}
          ELSE /\ trace[i].op = Settles(trace[i - 1].op)
               /\ trace[i].arg = trace[i - 1].arg
    /\ trace # <<>> => StepOf(trace[1].arg) = 1
    /\ \A i \in 1..(Len(trace) - 1) :
          LET here == StepOf(trace[i].arg)
              there == StepOf(trace[i + 1].arg)
          IN  \/ there = here
              \/ there = here + 1 /\ i % 2 = 0
    /\ \A x \in OnceOnly : Count(x[1], x[2]) <= 1

\* C12 witness: a run that went through every step, by the longest way.
C12_Witness ==
    /\ Exited
    /\ EnvWritten
    /\ ReprobeSucceeded
    /\ Asked(QContinueAgain)

\* The lines printed on the diagnostic stream.
ErrorLines ==
    SelectSeq(console, LAMBDA e : e.op = "error")

\* C16: a run that ended on one of the fatal steps (tool not installed,
\* authentication not confirmed by the operator, re-probe failure, webhook
\* extraction failure, invalid project-gate input, refused confirmation) has
\* printed a message on the diagnostic stream.
C16_FatalMessageOnErrorStream ==
    (Exited /\ FatalBeforeAssembly) => ErrorLines # <<>>

\* The scheduling the claim assumes: every prompt is eventually answered and
\* every external process eventually exits, so a step that can be taken is
\* taken.
FairSpec ==
    Spec /\ WF_vars(Next)

\* C17: under that scheduling every run ends, and no run issues more than 8
\* prompts or invokes more than 4 external commands.
C17_TerminatesWithinBudget ==
    /\ <>Exited
    /\ [](CountOp("question") <= 8 /\ CountOp("exec") <= 4)

\* C17 witness: a run that has ended after 8 prompts and 4 commands.
C17_Witness ==
    /\ Exited
    /\ CountOp("question") = 8
    /\ CountOp("exec") = 4

\* The listen output of a run in which the command succeeded.
ListenStdout ==
    trace[CHOOSE i \in DOMAIN trace :
              trace[i].op = "execResult" /\ trace[i].arg = CmdListen].data

\* s[i..j] is whsec_ followed by one or more characters of [a-zA-Z0-9].
IsToken(s, i, j) ==
    /\ 1 <= i /\ i + 6 <= j /\ j <= Len(s)
    /\ <<s[i], s[i + 1], s[i + 2], s[i + 3], s[i + 4], s[i + 5]>>
          = <<"w", "h", "s", "e", "c", "_">>
    /\ \A k \in (i + 6)..j : s[k] \in Alnum

\* s[i..j] is the leftmost such substring, and the longest one that starts
\* there.
IsLeftmostMaximalToken(s, i, j) ==
    /\ IsToken(s, i, j)
    /\ \A x \in 1..(i - 1) : \A y \in x..Len(s) : ~IsToken(s, x, y)
    /\ \A y \in (j + 1)..Len(s) : ~IsToken(s, i, y)

\* C13: once the listen command has succeeded, either its output holds a
\* token and the webhook secret is the leftmost maximal one (and the script
\* has gone on to the project gate), or it holds none and the extraction has
\* failed: the run has ended without a webhook secret.
C13_LeftmostMaximalToken ==
    Settled(CmdListen, TRUE) =>
        LET s == ListenStdout
            tokens == {r \in (1..Len(s)) \X (1..Len(s)) : IsLeftmostMaximalToken(s, r[1], r[2])}
        IN  IF tokens = {}
            THEN /\ \A i \in 1..Len(s) : \A j \in i..Len(s) : ~IsToken(s, i, j)
                 /\ Exited
                 /\ STRIPE_WEBHOOK_SECRET = <<>>
                 /\ ~Asked(QHasProject)
                 /\ \E k \in DOMAIN console :
                       /\ console[k].op = "error"
                       /\ console[k].arg = "Failed to extract Stripe webhook secret"
            ELSE /\ pc = "hasProject"
                 /\ \A r \in tokens : STRIPE_WEBHOOK_SECRET = SubSeq(s, r[1], r[2])

\* C13 witness: an output with text before the token; the secret is the
\* token without that text.
C13_Witness ==
    /\ Settled(CmdListen, TRUE)
    /\ pc = "hasProject"
    /\ ListenStdout = <<"-">> \o Whsec \o <<"Z">>
    /\ STRIPE_WEBHOOK_SECRET = Whsec \o <<"Z">>

(***************************************************************************)
(* The middleware: src/utils/supabase/middleware.ts and getSupabaseKeys.   *)
(*                                                                         *)
(* One call is followed from its start to its end.  updateSession stops    *)
(* once, at `await supabase.auth.getUser()`; while it waits the SDK may    *)
(* call the setAll callback it was given.  A pathname is a sequence of     *)
(* one-character strings, so that startsWith is computed; cookie names,    *)
(* values and options are opaque.                                          *)
(***************************************************************************)

\* The SDK calls setAll at most this many times during one user lookup.
MaxSetAll == 2

\* One setAll call passes at most this many cookies.
MaxCookies == 2

\* What the two environment variables may hold when the application starts.
UrlValues ==
    { Unset, SetTo(<<>>), SetTo(<<"a">>) }

AnonKeyValues ==
    { Unset, SetTo(<<>>), SetTo(<<"b">>) }

SignIn ==
    <<"/", "s", "i", "g", "n", "-", "i", "n">>

SignUp ==
    <<"/", "s", "i", "g", "n", "-", "u", "p">>

Pathnames ==
    { <<"/">>,
      <<"/", "d">>,
      <<"/", "s", "i", "g", "n">>,
      SignIn,
      SignIn \o <<"/", "x">>,
      SignUp }

\* The cookies a request arrives with.
RequestCookies ==
    { {}, {[name |-> "sb", value |-> "old"]} }

Requests ==
    [pathname : Pathnames, cookies : RequestCookies]

\* The cookies the SDK may pass to setAll: a fresh session cookie, the same
\* cookie cleared, and a second cookie.
SdkCookies ==
    { [name |-> "sb", value |-> "new", options |-> "maxAge=3600"],
      [name |-> "sb", value |-> "", options |-> "maxAge=0"],
      [name |-> "sb2", value |-> "new", options |-> "maxAge=3600"] }

CookieLists ==
    UNION { [1..n -> SdkCookies] : n \in 0..MaxCookies }

\* supabase.auth.getUser() resolves with a user or with none.
Users ==
    { "null", "someone" }

\* s.startsWith(prefix)
startsWith(s, prefix) ==
    /\ Len(prefix) <= Len(s)
    /\ SubSeq(s, 1, Len(prefix)) = prefix

\* !v of JavaScript for v a string or undefined, with one test missing.
IsUndefined(v) ==
    ~v.defined

\* !v of JavaScript for v a string or undefined.
Falsy(v) ==
    \/ ~v.defined
    \/ v.value = <<>>

\* getSupabaseKeys(): the two values, or the error it throws.
getSupabaseKeys ==
    IF Falsy(processEnv.NEXT_PUBLIC_SUPABASE_URL)
    THEN [threw |-> TRUE,
          message |-> "NEXT_PUBLIC_SUPABASE_URL is not defined",
          publicSupabaseUrl |-> <<>>, publicSupabaseAnonKey |-> <<>>]
    ELSE IF Falsy(processEnv.NEXT_PUBLIC_SUPABASE_ANON_KEY)
    THEN [threw |-> TRUE,
          message |-> "NEXT_PUBLIC_SUPABASE_ANON_KEY is not defined",
          publicSupabaseUrl |-> <<>>, publicSupabaseAnonKey |-> <<>>]
    ELSE [threw |-> FALSE,
          message |-> "",
          publicSupabaseUrl |-> processEnv.NEXT_PUBLIC_SUPABASE_URL.value,
          publicSupabaseAnonKey |-> processEnv.NEXT_PUBLIC_SUPABASE_ANON_KEY.value]

\* createServerClient(url, key, ...) and createBrowserClient(url, key)
Client(kind, url, key) ==
    [kind |-> kind, url |-> url, key |-> key]

\* cookies.set(...): the cookie replaces the one of the same name.
Set(cookies, cookie) ==
    {c \in cookies : c.name # cookie.name} \cup {cookie}

RECURSIVE SetEach(_, _)
\* cookiesToSet.forEach(c => cookies.set(...)), c already in the shape kept
SetEach(cookies, cookiesToSet) ==
    IF cookiesToSet = <<>>
    THEN cookies
    ELSE SetEach(Set(cookies, Head(cookiesToSet)), Tail(cookiesToSet))

\* ({name, value, options}) => request.cookies.set(name, value)
RequestCookie(c) ==
    [name |-> c.name, value |-> c.value]

\* NextResponse.next({request})
NextResponseNext(req) ==
    Response("next", <<>>, req.cookies, {}, "")

\* NextResponse.redirect(url)
NextResponseRedirect(pathname) ==
    Response("redirect", pathname, {}, {}, "")

\* The exemption of the redirect with the sign-in test missing.
ExemptSignUpOnly(pathname) ==
    startsWith(pathname, SignUp)

\* The pathnames an unauthenticated request may have.
Exempt(pathname) ==
    \/ startsWith(pathname, SignIn)
    \/ startsWith(pathname, SignUp)

\* updateSession(request), up to `await supabase.auth.getUser()`
\* (middleware.ts:4-34): the response is made first, then the keys are read,
\* then the client is constructed and the user lookup started.
UpdateSession(req, fromRedirect) ==
    /\ request' = req
    /\ followed' = fromRedirect
    /\ supabaseResponse' = NextResponseNext(req)
    /\ passed' = <<>>
    /\ user' = "none"
    /\ LET keys == getSupabaseKeys
       IN  IF keys.threw
           THEN /\ mwpc' = "threw"
                /\ result' = Response("error", <<>>, {}, {}, keys.message)
                /\ clients' = <<>>
                /\ lookups' = 0
           ELSE /\ mwpc' = "getUser"
                /\ result' = NoResponse
                /\ clients' = <<Client("server", keys.publicSupabaseUrl,
                                       keys.publicSupabaseAnonKey)>>
                /\ lookups' = 1
    /\ UNCHANGED <<processEnv, setup>>

\* A request reaches the middleware.
HandleRequest ==
    /\ mwpc = "idle"
    /\ \E req \in Requests : UpdateSession(req, FALSE)

\* The setAll callback (middleware.ts:19-27), called by the SDK while the
\* user lookup is pending.
SetAll ==
    /\ mwpc = "getUser"
    /\ Len(passed) < MaxSetAll
    /\ \E cookiesToSet \in CookieLists :
          LET req == [request EXCEPT !.cookies =
                         SetEach(@, [i \in DOMAIN cookiesToSet |->
                                         RequestCookie(cookiesToSet[i])])]
          IN  /\ request' = req
              /\ supabaseResponse' =
                     [NextResponseNext(req) EXCEPT !.cookies =
                         SetEach(@, cookiesToSet)]
              /\ passed' = Append(passed, cookiesToSet)
    /\ UNCHANGED <<processEnv, mwpc, followed, clients, lookups, user, result,
                   setup>>

\* supabase.auth.getUser() resolves and updateSession runs to its end
\* (middleware.ts:32-46).
GetUser ==
    /\ mwpc = "getUser"
    /\ \E u \in Users :
          /\ user' = u
          /\ result' = IF u = "null" /\ ~Exempt(request.pathname)
                       THEN NextResponseRedirect(SignIn)
                       ELSE supabaseResponse
    /\ mwpc' = "returned"
    /\ UNCHANGED <<processEnv, request, followed, supabaseResponse, clients,
                   lookups, passed, setup>>

\* The browser follows a redirect: its request for the new location reaches
\* the middleware, with whatever cookies the browser holds.
FollowRedirect ==
    /\ mwpc = "returned"
    /\ result.kind = "redirect"
    /\ \E cookies \in RequestCookies :
          UpdateSession([pathname |-> result.location, cookies |-> cookies], TRUE)

\* createClient() (middleware.ts:50-56)
CreateClient ==
    /\ mwpc = "idle"
    /\ LET keys == getSupabaseKeys
       IN  IF keys.threw
           THEN /\ mwpc' = "threw"
                /\ result' = Response("error", <<>>, {}, {}, keys.message)
                /\ clients' = <<>>
           ELSE /\ mwpc' = "returned"
                /\ result' = Response("client", <<>>, {}, {}, "")
                /\ clients' = <<Client("browser", keys.publicSupabaseUrl,
                                       keys.publicSupabaseAnonKey)>>
    /\ UNCHANGED <<processEnv, request, followed, supabaseResponse, lookups,
                   passed, user, setup>>

\* The application starts with some environment; the setup script is not
\* running.
MiddlewareInit ==
    /\ processEnv \in [NEXT_PUBLIC_SUPABASE_URL : UrlValues,
                       NEXT_PUBLIC_SUPABASE_ANON_KEY : AnonKeyValues]
    /\ mwpc = "idle"
    /\ request = NoRequest
    /\ followed = FALSE
    /\ supabaseResponse = NoResponse
    /\ clients = <<>>
    /\ lookups = 0
    /\ passed = <<>>
    /\ user = "none"
    /\ result = NoResponse
    /\ pc = "main"
    /\ exitCode = 0
    /\ trace = <<>>
    /\ console = <<>>
    /\ envFile0 = [exists |-> FALSE, content |-> <<>>]
    /\ envFile = envFile0
    /\ authAnswer = <<>>
    /\ STRIPE_SECRET_KEY = <<>>
    /\ STRIPE_WEBHOOK_SECRET = <<>>
    /\ hasProject = <<>>
    /\ answer = <<>>
    /\ answerAgain = <<>>
    /\ NEXT_PUBLIC_SUPABASE_URL = <<>>
    /\ NEXT_PUBLIC_SUPABASE_ANON_KEY = <<>>
    /\ SUPABASE_SERVICE_ROLE_KEY = <<>>

MiddlewareNext ==
    \/ HandleRequest
    \/ SetAll
    \/ GetUser
    \/ FollowRedirect
    \/ CreateClient

MiddlewareSpec ==
    MiddlewareInit /\ [][MiddlewareNext]_vars

(***************************************************************************)
(* The middleware claims.                                                  *)
(***************************************************************************)

\* The call was one of updateSession and it returned a response.
Responded ==
    /\ mwpc = "returned"
    /\ result.kind \in {"next", "redirect"}

\* C14: with NEXT_PUBLIC_SUPABASE_URL or NEXT_PUBLIC_SUPABASE_ANON_KEY unset
\* or empty, a call of updateSession or createClient ends with an error, no
\* client constructed, no user looked up and no cookie written; with both
\* non-empty, the one client of the call is constructed with exactly the two
\* values, the URL first.
C14_KeysBeforeClient ==
    LET url == processEnv.NEXT_PUBLIC_SUPABASE_URL
        key == processEnv.NEXT_PUBLIC_SUPABASE_ANON_KEY
        missing(v) == v.defined => v.value = <<>>
    IN  mwpc # "idle" =>
            IF missing(url) \/ missing(key)
            THEN /\ mwpc = "threw"
                 /\ result.kind = "error"
                 /\ clients = <<>>
                 /\ lookups = 0
                 /\ passed = <<>>
            ELSE /\ mwpc # "threw"
                 /\ result.kind # "error"
                 /\ Len(clients) = 1
                 /\ clients[1].url = url.value
                 /\ clients[1].key = key.value

\* C14 witness: the URL is set and the anonymous key is the empty string; a
\* request has reached the middleware and the call has failed.
C14_Witness ==
    /\ processEnv.NEXT_PUBLIC_SUPABASE_URL = SetTo(<<"a">>)
    /\ processEnv.NEXT_PUBLIC_SUPABASE_ANON_KEY = SetTo(<<>>)
    /\ request.pathname = <<"/", "d">>
    /\ mwpc = "threw"
    /\ result.message = "NEXT_PUBLIC_SUPABASE_ANON_KEY is not defined"

\* The k-th cookie of the i-th setAll call is the last one passed under its
\* name during the call of updateSession.
LastPassed(i, k) ==
    \A j \in DOMAIN passed : \A m \in DOMAIN passed[j] :
        (j > i \/ (j = i /\ m > k)) => passed[j][m].name # passed[i][k].name

\* C15: when updateSession has returned a response, passed through or
\* redirected, every cookie the SDK passed to setAll during the call (the
\* last one passed under each name) is in the cookies of that response with
\* its name, value and options.
C15_SetAllCookiesInResponse ==
    Responded =>
        \A i \in DOMAIN passed : \A k \in DOMAIN passed[i] :
            LastPassed(i, k) => passed[i][k] \in result.cookies

\* C18: when updateSession has returned a response, it is a redirect exactly
\* when the lookup yielded no user and the pathname starts with neither
\* /sign-in nor /sign-up; a redirect goes to /sign-in; the request made by
\* following a redirect is not redirected again; a request with a user is
\* passed through.
C18_RedirectExactlyUnauthenticated ==
    Responded =>
        LET p == request.pathname
            n == Len(SignIn)
            exempt == /\ Len(p) >= n
                      /\ SubSeq(p, 1, n) \in {SignIn, SignUp}
        IN  /\ result.kind = "redirect" <=> (user = "null" /\ ~exempt)
            /\ result.kind = "redirect" => result.location = SignIn
            /\ followed => result.kind = "next"
            /\ user = "someone" => result.kind = "next"

\* C18 witness: a request without a user was redirected, the browser followed
\* the redirect, the lookup again yielded no user, and the request for
\* /sign-in was passed through.
C18_Witness ==
    /\ followed
    /\ request.pathname = SignIn
    /\ Responded
    /\ user = "null"
    /\ result.kind = "next"

====
